---- MODULE Spec2Model ----
(* A model of package pathlib (src/pkg/pathlib/pathlib.go): the Path value   *)
(* type and its operations over the host filesystem.                          *)
(*                                                                            *)
(* A Go string is a sequence of one-character strings, so that Clean, Join,   *)
(* Dir, Base, TrimRight, LastIndex and HasSuffix are computed on characters   *)
(* as the code computes them.  The filesystem is a function from nodes (the   *)
(* sequence of names leading from the root to an entry) to entries.           *)
EXTENDS Integers, Sequences, FiniteSets, TLC

VARIABLES
    fs,      \* the host filesystem: node -> entry
    last,    \* the last completed call of the library: operation, inputs, result
    walk,    \* a running Find: its receiver, the patterns done, dict so far
    procs    \* concurrent callers of Create: the system call each is at

vars == <<fs, last, walk, procs>>

-----------------------------------------------------------------------------
(* Bounds of the model.                                                       *)

\* Longest generated path string / pathname, in characters.
MaxLen == 3
\* Longest content written to a file, in bytes.
MaxData == 1
\* Longest sequence of patterns handed to Find.
MaxPatterns == 2
\* Callers that run createPath on one path at the same time.
NumCallers == 2
\* Width of Go's uint in the model, in bits (the code's is 32 or 64).
UintBits == 3
\* In the specifications that draw every pathname up to MaxLen, a call of
\* Create starts from a filesystem of fewer than MaxEntries entries.
MaxEntries == 3

-----------------------------------------------------------------------------
(* Strings.                                                                   *)

Separator == "/"

\* The characters generated inputs are made of.
Chars == {"/", ".", "a"}

\* Byte order of the characters of the model (ASCII).
CharRank(c) ==
    CASE c = "*" -> 42
      [] c = "." -> 46
      [] c = "/" -> 47
      [] c = "?" -> 63
      [] c = "[" -> 91
      [] c = "a" -> 97
      [] c = "b" -> 98
      [] c = "w" -> 119

\* All strings over cs of length at most n.
RECURSIVE StringsUpTo(_, _)
StringsUpTo(cs, n) ==
    IF n = 0 THEN {<<>>}
    ELSE LET shorter == StringsUpTo(cs, n - 1)
         IN  shorter \cup {Append(s, c) : s \in shorter, c \in cs}

Last(s) == s[Len(s)]
Front(s) == SubSeq(s, 1, Len(s) - 1)

\* strings.TrimRight(s, cutset) with a one-character cutset.
RECURSIVE TrimRight(_, _)
TrimRight(s, c) ==
    IF s # <<>> /\ Last(s) = c THEN TrimRight(Front(s), c) ELSE s

\* strings.LastIndex(s, c) for a one-character c, 0-based; -1 when absent.
RECURSIVE LastIndex(_, _)
LastIndex(s, c) ==
    IF s = <<>> THEN -1
    ELSE IF Last(s) = c THEN Len(s) - 1
    ELSE LastIndex(Front(s), c)

\* strings.HasSuffix(s, c) for a one-character c.
HasSuffix(s, c) == s # <<>> /\ Last(s) = c

\* The elements of s between separators (strings.Split(s, "/")).
RECURSIVE Split(_)
Split(s) ==
    LET i == LastIndex(s, Separator)
    IN  IF i = -1 THEN <<s>>
        ELSE Append(Split(SubSeq(s, 1, i)), SubSeq(s, i + 2, Len(s)))

\* strings.Join(names, "/").
RECURSIVE JoinNames(_)
JoinNames(names) ==
    IF names = <<>> THEN <<>>
    ELSE IF Len(names) = 1 THEN names[1]
    ELSE JoinNames(Front(names)) \o <<Separator>> \o Last(names)

DotName == <<".">>
DotDotName == <<".", ".">>

\* The elements Clean keeps, left to right: "" and "." are dropped, ".."
\* removes the element before it, stays in front of a relative path and is
\* dropped at the root.
RECURSIVE CleanElems(_, _)
CleanElems(elems, rooted) ==
    IF elems = <<>> THEN <<>>
    ELSE LET out == CleanElems(Front(elems), rooted)
             e == Last(elems)
         IN  IF e = <<>> \/ e = DotName THEN out
             ELSE IF e = DotDotName
                  THEN IF out # <<>> /\ Last(out) # DotDotName THEN Front(out)
                       ELSE IF rooted THEN out
                       ELSE Append(out, e)
             ELSE Append(out, e)

\* filepath.Clean.
Clean(s) ==
    IF s = <<>> THEN DotName
    ELSE LET rooted == s[1] = Separator
             out == JoinNames(CleanElems(Split(s), rooted))
         IN  IF rooted THEN <<Separator>> \o out
             ELSE IF out = <<>> THEN DotName
             ELSE out

\* filepath.Join(a, b).
Join(a, b) ==
    IF a # <<>> THEN Clean(a \o <<Separator>> \o b)
    ELSE IF b # <<>> THEN Clean(b)
    ELSE <<>>

\* filepath.Dir.
Dir(s) == Clean(SubSeq(s, 1, LastIndex(s, Separator) + 1))

\* filepath.Base.
Base(s) ==
    IF s = <<>> THEN DotName
    ELSE LET t == TrimRight(s, Separator)
         IN  IF t = <<>> THEN <<Separator>>
             ELSE SubSeq(t, LastIndex(t, Separator) + 2, Len(t))

\* filepath.IsAbs.
IsAbs(s) == s # <<>> /\ s[1] = Separator

-----------------------------------------------------------------------------
(* Path: construction and string algebra.  A Path is its path string.         *)

RootPath == <<Separator>>
DotPath == DotName

\* The process's working directory, as os.Getwd reports it.
Getwd == <<"/", "w">>

NewPath(p) == Clean(p)

GetBaseDir == NewPath(Getwd)

Name(p) == Base(p)

PathJoin(p, other) == Join(p, other)

Parent(p) == Dir(p)


\* Path.Parents: the result, or the runtime panic of indexing the empty slice.
RECURSIVE ParentsLoop(_, _, _, _)
ParentsLoop(current, i, depth, parents) ==
    IF i >= depth THEN parents
    ELSE LET next == Parent(current)
         IN  IF next = DotPath \/ next = RootPath THEN parents
             ELSE ParentsLoop(next, i + 1, depth, Append(parents, next))

UintMod == 2 ^ UintBits

Parents(p, depth) ==
    LET parents == ParentsLoop(p, 0, (depth + 1) % UintMod, <<>>)
    IN  IF parents = <<>> THEN [kind |-> "panic"]
        ELSE [kind |-> "path", path |-> parents[Len(parents)]]

-----------------------------------------------------------------------------
(* The host filesystem.                                                       *)

RootNode == <<>>

DirEntry == [kind |-> "dir", data |-> <<>>, readable |-> TRUE]
FileEntry(data) == [kind |-> "file", data |-> data, readable |-> TRUE]

IsPrefix(m, n) == Len(m) <= Len(n) /\ SubSeq(n, 1, Len(m)) = m

\* Path resolution by the host, from the root or the working directory.
RECURSIVE Lookup(_, _)
Lookup(start, elems) ==
    IF elems = <<>> THEN start
    ELSE LET at == Lookup(start, Front(elems))
             e == Last(elems)
         IN  IF e = <<>> \/ e = DotName THEN at
             ELSE IF e = DotDotName THEN (IF at = <<>> THEN at ELSE Front(at))
             ELSE Append(at, e)

CwdNode == Lookup(RootNode, Split(Getwd))

Resolve(s) == Lookup(IF IsAbs(s) THEN RootNode ELSE CwdNode, Split(s))

\* The filesystem a process starts in: the root and the working directory.
InitFs == [n \in {RootNode, CwdNode} |-> DirEntry]

IsDir(f, n) == n \in DOMAIN f /\ f[n].kind = "dir"
IsFile(f, n) == n \in DOMAIN f /\ f[n].kind = "file"
Files(f) == {n \in DOMAIN f : f[n].kind = "file"}
Subtree(f, n) == {m \in DOMAIN f : IsPrefix(n, m)}
Prefixes(n) == {SubSeq(n, 1, k) : k \in 0..Len(n)}

\* os.Stat: "ok", "notexist" (os.IsNotExist), or "error" (a component of the
\* path is not a directory, or the fault the host injects).
Stat(f, s, fault) ==
    LET n == Resolve(s)
    IN  IF fault THEN "error"
        ELSE IF n \in DOMAIN f THEN "ok"
        ELSE IF \E m \in Prefixes(n) : IsFile(f, m) THEN "error"
        ELSE "notexist"

\* os.MkdirAll: [err, fs].
MkdirAll(f, s, fault) ==
    LET n == Resolve(s)
        missing == {m \in Prefixes(n) : m \notin DOMAIN f}
    IN  IF IsDir(f, n) THEN [err |-> FALSE, fs |-> f]
        ELSE IF fault \/ \E m \in Prefixes(n) : IsFile(f, m)
        THEN [err |-> TRUE, fs |-> f]
        ELSE [err |-> FALSE, fs |-> [m \in missing |-> DirEntry] @@ f]

\* os.Create (O_RDWR|O_CREATE|O_TRUNC): [err, fs].
OsCreate(f, s, fault) ==
    LET n == Resolve(s)
    IN  IF fault \/ n = RootNode \/ IsDir(f, n) \/ ~IsDir(f, Front(n))
        THEN [err |-> TRUE, fs |-> f]
        ELSE [err |-> FALSE, fs |-> (n :> FileEntry(<<>>)) @@ f]

\* os.ReadFile: [err, data].
ReadFile(f, s, fault) ==
    LET n == Resolve(s)
    IN  IF fault \/ ~IsFile(f, n) THEN [err |-> TRUE, data |-> <<>>]
        ELSE [err |-> FALSE, data |-> f[n].data]

\* No node: the value of "stuck" when the host lets every removal through.
NoNode == <<<<Separator>>>>

\* os.RemoveAll refuses a path that ends in ".".
EndsWithDot(s) ==
    \/ s = DotName
    \/ Len(s) >= 2 /\ s[Len(s)] = "." /\ s[Len(s) - 1] = Separator

\* os.RemoveAll: [err, fs].  When the host refuses to remove the entry
\* "stuck", that entry, what is under it and the directories leading to it
\* stay, and the rest of the tree is removed.
RemoveAll(f, s, stuck) ==
    LET n == Resolve(s)
        kept == {m \in DOMAIN f :
                    \/ ~IsPrefix(n, m)
                    \/ stuck # NoNode /\ (IsPrefix(m, stuck) \/ IsPrefix(stuck, m))}
    IN  IF EndsWithDot(s) THEN [err |-> TRUE, fs |-> f]
        ELSE IF n \notin DOMAIN f THEN [err |-> FALSE, fs |-> f]
        ELSE [err |-> stuck # NoNode, fs |-> [m \in kept |-> f[m]]]

-----------------------------------------------------------------------------
(* Path: the operations on the filesystem.                                    *)

\* Path.Exists.
Exists(f, p) == Stat(f, p, FALSE) = "ok"

\* Path.Mkdir: [err, fs].
Mkdir(f, p, fault) == MkdirAll(f, p, fault)

\* The stat half of Path.Touch: "create" (the file is to be created), "done"
\* (something is there: nothing to do) or "error".
TouchStat(f, p, pathname, fault) ==
    LET st == Stat(f, Join(p, pathname), fault)
    IN  IF st = "notexist" THEN "create"
        ELSE IF st = "error" THEN "error"
        ELSE "done"

\* Path.Touch: [err, fs].
Touch(f, p, pathname, statFault, createFault) ==
    LET todo == TouchStat(f, p, pathname, statFault)
    IN  IF todo = "create" THEN OsCreate(f, Join(p, pathname), createFault)
        ELSE [err |-> todo = "error", fs |-> f]

\* splitPath: <<folder, file>>.
splitPath(path) ==
    LET trimmedPath == TrimRight(path, Separator)
        lastSlashIndex == LastIndex(trimmedPath, Separator)
        folder == IF lastSlashIndex # -1
                  THEN SubSeq(trimmedPath, 1, lastSlashIndex)
                  ELSE <<>>
        file == IF lastSlashIndex # -1
                THEN SubSeq(trimmedPath, lastSlashIndex + 2, Len(trimmedPath))
                ELSE trimmedPath
    IN  IF HasSuffix(path, Separator) THEN <<folder, <<>>>> ELSE <<folder, file>>

\* The folder createPath makes and the file it touches in it.
createFolder(pathname) ==
    LET folder == splitPath(pathname)[1]
        file == splitPath(pathname)[2]
    IN  IF file = <<>> \/ (folder = <<>> /\ file = <<>>) THEN pathname ELSE folder

\* createPath: the Path returned, the filesystem it leaves, and the errors
\* of Mkdir and Touch, which it drops.
createPath(f, pathname, faults) ==
    LET folder == createFolder(pathname)
        file == splitPath(pathname)[2]
        p == NewPath(folder)
        made == IF folder # <<>> THEN Mkdir(f, p, faults.mkdir)
                ELSE [err |-> FALSE, fs |-> f]
        touched == IF file # <<>>
                   THEN Touch(made.fs, p, file, faults.stat, faults.create)
                   ELSE [err |-> FALSE, fs |-> made.fs]
    IN  [ret |-> IF file # <<>> THEN NewPath(PathJoin(p, file)) ELSE p,
         fs |-> touched.fs,
         mkdirErr |-> made.err,
         touchErr |-> touched.err]

\* Path.Create.
Create(f, p, pathname, faults) == createPath(f, PathJoin(p, pathname), faults)

\* Read, were it to report an empty file as nil.
ReadEmptyAsNil(f, p, fault) ==
    LET r == ReadFile(f, p, fault)
    IN  IF r.err \/ r.data = <<>> THEN [kind |-> "nil"]
        ELSE [kind |-> "bytes", data |-> r.data]

\* Path.Read: the bytes read, or nil.
Read(f, p, fault) ==
    LET r == ReadFile(f, p, fault)
    IN  IF r.err THEN [kind |-> "nil"] ELSE [kind |-> "bytes", data |-> r.data]

\* Delete, were it to drop the error of os.RemoveAll.
DeleteDropsError(f, p, stuck) ==
    IF Exists(f, p)
    THEN [ret |-> TRUE, fs |-> RemoveAll(f, p, stuck).fs, attempted |-> TRUE]
    ELSE [ret |-> TRUE, fs |-> f, attempted |-> FALSE]

\* Path.Delete: [ret, fs, attempted].
Delete(f, p, stuck) ==
    IF Exists(f, p)
    THEN LET r == RemoveAll(f, p, stuck)
         IN  [ret |-> ~r.err, fs |-> r.fs, attempted |-> TRUE]
    ELSE [ret |-> TRUE, fs |-> f, attempted |-> FALSE]

-----------------------------------------------------------------------------
(* Path.Find: filepath.Walk and filepath.Match.                               *)

\* Byte-wise order of strings (sort.Strings).
RECURSIVE NameLess(_, _)
NameLess(a, b) ==
    IF a = <<>> THEN b # <<>>
    ELSE IF b = <<>> THEN FALSE
    ELSE IF a[1] = b[1] THEN NameLess(Tail(a), Tail(b))
    ELSE CharRank(a[1]) < CharRank(b[1])

RECURSIVE SortNames(_)
SortNames(names) ==
    IF names = {} THEN <<>>
    ELSE LET least == CHOOSE x \in names : \A y \in names \ {x} : NameLess(x, y)
         IN  <<least>> \o SortNames(names \ {least})

\* os.Lstat: whether it fails.
LstatFails(f, path) == Resolve(path) \notin DOMAIN f

\* readDirNames of filepath.Walk: [err, names], the names sorted.
readDirNames(f, path) ==
    LET n == Resolve(path)
    IN  IF ~f[n].readable THEN [err |-> TRUE, names |-> <<>>]
        ELSE [err |-> FALSE,
              names |-> SortNames({Last(m) : m \in {x \in DOMAIN f :
                                      Len(x) = Len(n) + 1 /\ IsPrefix(n, x)}})]

\* A pattern filepath.Match rejects (ErrBadPattern): a character class that
\* is never closed.
Malformed(pattern) ==
    \E i \in 1..Len(pattern) :
        /\ pattern[i] = "["
        /\ \A j \in (i + 1)..Len(pattern) : pattern[j] # "]"

\* Shell matching of a name without separators: "*" and "?".
RECURSIVE GlobMatch(_, _)
GlobMatch(pattern, name) ==
    IF pattern = <<>> THEN name = <<>>
    ELSE IF pattern[1] = "*"
         THEN \/ GlobMatch(Tail(pattern), name)
              \/ name # <<>> /\ GlobMatch(pattern, Tail(name))
    ELSE IF name = <<>> THEN FALSE
    ELSE IF pattern[1] = "?" THEN GlobMatch(Tail(pattern), Tail(name))
    ELSE pattern[1] = name[1] /\ GlobMatch(Tail(pattern), Tail(name))

\* filepath.Match: "true", "false" or "error".
Match(pattern, name) ==
    IF Malformed(pattern) THEN "error"
    ELSE IF GlobMatch(pattern, name) THEN "true"
    ELSE "false"

\* The function FindOne hands to filepath.Walk, were it not to skip
\* directories.
WalkFnListsDirectories(pattern, path, info, err, matches) ==
    IF err THEN [err |-> TRUE, matches |-> matches]
    ELSE LET matched == Match(pattern, Base(path))
         IN  IF matched = "error" THEN [err |-> TRUE, matches |-> matches]
             ELSE IF matched = "true"
                  THEN [err |-> FALSE, matches |-> Append(matches, NewPath(path))]
             ELSE [err |-> FALSE, matches |-> matches]

\* The function FindOne hands to filepath.Walk: [err, matches].
WalkFn(pattern, path, info, err, matches) ==
    IF err THEN [err |-> TRUE, matches |-> matches]
    ELSE IF info.kind = "dir" THEN [err |-> FALSE, matches |-> matches]
    ELSE LET matched == Match(pattern, Base(path))
         IN  IF matched = "error" THEN [err |-> TRUE, matches |-> matches]
             ELSE IF matched = "true"
                  THEN [err |-> FALSE, matches |-> Append(matches, NewPath(path))]
             ELSE [err |-> FALSE, matches |-> matches]

\* filepath.Walk's walk, and its loop over the names of a directory:
\* [err, matches].
RECURSIVE walkTree(_, _, _, _)
RECURSIVE walkNames(_, _, _, _, _)
walkTree(f, pattern, path, matches) ==
    LET info == f[Resolve(path)]
    IN  IF info.kind # "dir" THEN WalkFn(pattern, path, info, FALSE, matches)
        ELSE LET rd == readDirNames(f, path)
                 r1 == WalkFn(pattern, path, info, rd.err, matches)
             IN  IF rd.err \/ r1.err THEN r1
                 ELSE walkNames(f, pattern, path, rd.names, r1.matches)

walkNames(f, pattern, path, names, matches) ==
    IF names = <<>> THEN [err |-> FALSE, matches |-> matches]
    ELSE LET r == walkTree(f, pattern, Join(path, Head(names)), matches)
         IN  IF r.err THEN r
             ELSE walkNames(f, pattern, path, Tail(names), r.matches)

\* filepath.Walk(root, fn): [err, matches].
Walk(f, pattern, root) ==
    IF LstatFails(f, root) THEN WalkFn(pattern, root, DirEntry, TRUE, <<>>)
    ELSE walkTree(f, pattern, root, <<>>)

\* FindOne, were it to return nothing after a walk error.
FindOneDropsMatches(f, p, pattern) ==
    LET r == Walk(f, pattern, p)
    IN  [matches |-> IF r.err THEN <<>> ELSE r.matches, logged |-> r.err]

\* Path.FindOne: the matches, and whether "Error during walk" was printed.
FindOne(f, p, pattern) ==
    LET r == Walk(f, pattern, p)
    IN  [matches |-> r.matches, logged |-> r.err]

\* One iteration of the loop of Path.Find, on the next pattern: the state of
\* the running Find after it.
FindStep(f, w, pattern) ==
    LET one == FindOne(f, w.path, pattern)
    IN  [w EXCEPT !.patterns = Append(@, pattern),
                  !.dict = (pattern :> one.matches) @@ @,
                  !.logged = @ + (IF one.logged THEN 1 ELSE 0)]

-----------------------------------------------------------------------------
(* The state after construction, and the calls of the library.                *)

NoCall == [op |-> "none"]
Idle == [pc |-> "idle"]

Init ==
    /\ fs = InitFs
    /\ last = NoCall
    /\ walk = Idle
    /\ procs = Idle

\* The fault the host may inject into the system calls of one Create: none,
\* or one of os.MkdirAll, os.Stat, os.Create fails.
NoFaults == [mkdir |-> FALSE, stat |-> FALSE, create |-> FALSE]
Faults == {NoFaults,
           [NoFaults EXCEPT !.mkdir = TRUE],
           [NoFaults EXCEPT !.stat = TRUE],
           [NoFaults EXCEPT !.create = TRUE]}

\* Every path string and pathname up to MaxLen characters.
PathStrings == StringsUpTo(Chars, MaxLen)

\* The Paths a caller holds: NewPath of a string, or one under GetBaseDir().
Paths == {NewPath(s) : s \in PathStrings} \cup {PathJoin(GetBaseDir, s) : s \in PathStrings}

\* The Paths Create is called on: the root, the current directory, the
\* working directory by its absolute name, and relative and absolute others.
Bases == {RootPath, DotPath, GetBaseDir, NewPath(<<"a">>), PathJoin(GetBaseDir, <<"a">>)}

\* p.Parents(depth).
ParentsCall(p, depth) ==
    /\ walk = Idle /\ procs = Idle
    /\ last' = [op |-> "parents", path |-> p, arg |-> depth, ret |-> Parents(p, depth)]
    /\ UNCHANGED <<fs, walk, procs>>

\* p.Create(pathname), with the faults the host injects.
CreateCall(p, pathname, faults) ==
    /\ walk = Idle /\ procs = Idle
    /\ \E r \in {Create(fs, p, pathname, faults)} :
           /\ fs' = r.fs
           /\ last' = [op |-> "create", path |-> p, arg |-> pathname,
                       ret |-> [kind |-> "path", path |-> r.ret],
                       pre |-> fs, mkdirErr |-> r.mkdirErr, touchErr |-> r.touchErr]
    /\ UNCHANGED <<walk, procs>>

NextParents == \E p \in Paths, depth \in 0..(UintMod - 1) : ParentsCall(p, depth)

SpecParents == Init /\ [][NextParents]_vars

NextCreate ==
    /\ Cardinality(DOMAIN fs) < MaxEntries
    /\ \E p \in Bases, pathname \in PathStrings, faults \in Faults :
           CreateCall(p, pathname, faults)

SpecCreate == Init /\ [][NextCreate]_vars

-----------------------------------------------------------------------------
(* A temporary root T = GetBaseDir() and a tree under it: the specification   *)
(* of Create, Read and Delete over the filesystems they build.                *)

\* The pathnames the tree under T is created from: a file, a pathname with a
\* trailing separator, a file in a directory, a file two directories down.
\* In walk order the file "a" comes before the directory "b".
TreePathnames ==
    {<<"a">>, <<"b", "/">>, <<"b", "/", "a">>, <<"b", "/", "b", "/", "a">>}

\* The Paths read, written and deleted: T's entries, by absolute and relative
\* name, and the current directory.
TreePaths ==
    {PathJoin(GetBaseDir, s) : s \in TreePathnames \cup {<<"b", "/", "b">>}}
        \cup {NewPath(<<"a">>), DotPath}

Contents == StringsUpTo({"x"}, MaxData)

\* A write by the caller (os.WriteFile) to a file that exists.
WriteCall(p, data) ==
    /\ walk = Idle /\ procs = Idle
    /\ IsFile(fs, Resolve(p))
    /\ fs' = [fs EXCEPT ![Resolve(p)] = FileEntry(data)]
    /\ last' = [op |-> "write", path |-> p, arg |-> data]
    /\ UNCHANGED <<walk, procs>>

\* p.Read(), with the fault the host injects.
ReadCall(p, fault) ==
    /\ walk = Idle /\ procs = Idle
    /\ last' = [op |-> "read", path |-> p, fault |-> fault,
                ret |-> Read(fs, p, fault), pre |-> fs]
    /\ UNCHANGED <<fs, walk, procs>>

\* p.Delete(); the host refuses to remove "stuck", if that is a node.  The
\* caller does not delete the working directory or a directory above it
\* (Delete of "." is refused by os.RemoveAll and is left in).
DeleteCall(p, stuck) ==
    /\ walk = Idle /\ procs = Idle
    /\ EndsWithDot(p) \/ ~IsPrefix(Resolve(p), CwdNode)
    /\ \E r \in {Delete(fs, p, stuck)} :
           /\ fs' = r.fs
           /\ last' = [op |-> "delete", path |-> p, stuck |-> stuck,
                       ret |-> r.ret, attempted |-> r.attempted, pre |-> fs]
    /\ UNCHANGED <<walk, procs>>

Next ==
    \/ \E pathname \in TreePathnames : CreateCall(GetBaseDir, pathname, NoFaults)
    \/ \E p \in TreePaths, data \in Contents : WriteCall(p, data)
    \/ \E p \in TreePaths, fault \in BOOLEAN : ReadCall(p, fault)
    \/ \E p \in TreePaths :
          \E stuck \in {NoNode} \cup Subtree(fs, Resolve(p)) : DeleteCall(p, stuck)

Spec == Init /\ [][Next]_vars

-----------------------------------------------------------------------------
(* Find over the trees Create builds, with directories the host has made      *)
(* unreadable.                                                                *)

\* The patterns: every name, the name "b", and one filepath.Match rejects.
Patterns == {<<"*">>, <<"b">>, <<"[">>}

\* The host takes the read permission of a directory away.
ChmodCall(p) ==
    /\ walk = Idle /\ procs = Idle
    /\ IsDir(fs, Resolve(p)) /\ fs[Resolve(p)].readable
    /\ fs' = [fs EXCEPT ![Resolve(p)].readable = FALSE]
    /\ last' = [op |-> "chmod", path |-> p]
    /\ UNCHANGED <<walk, procs>>

\* The Paths Find is called on: T, a directory and a file under it, and a
\* path that may not exist.
FindRoots ==
    {GetBaseDir, DotPath} \cup
        {PathJoin(GetBaseDir, s) : s \in {<<"a">>, <<"b">>, <<"b", "/", "b">>}}

\* p.Find(patterns) is called: dict is empty.  No call is the last completed
\* one while this one runs.
FindBegin(p) ==
    /\ walk = Idle /\ procs = Idle
    /\ walk' = [pc |-> "find", path |-> p, patterns |-> <<>>,
                dict |-> <<>>, logged |-> 0]
    /\ last' = NoCall
    /\ UNCHANGED <<fs, procs>>

\* The loop of Find takes the next pattern of its argument.
FindIterate(pattern) ==
    /\ walk.pc = "find"
    /\ Len(walk.patterns) < MaxPatterns
    /\ walk' = FindStep(fs, walk, pattern)
    /\ UNCHANGED <<fs, last, procs>>

\* The argument is used up: Find returns dict.
FindReturn ==
    /\ walk.pc = "find"
    /\ last' = [op |-> "find", path |-> walk.path, arg |-> walk.patterns,
                ret |-> walk.dict, logged |-> walk.logged, pre |-> fs]
    /\ walk' = Idle
    /\ UNCHANGED <<fs, procs>>

NextFind ==
    \/ \E pathname \in TreePathnames : CreateCall(GetBaseDir, pathname, NoFaults)
    \/ \E p \in TreePaths : ChmodCall(p)
    \/ \E p \in FindRoots : FindBegin(p)
    \/ \E pattern \in Patterns : FindIterate(pattern)
    \/ FindReturn

SpecFind == Init /\ [][NextFind]_vars

-----------------------------------------------------------------------------
(* Concurrent callers of Create on one path.  createPath takes no lock: its   *)
(* system calls (MkdirAll, then Stat and Create inside Touch) interleave      *)
(* with those of the other callers and with a write to the file.              *)

Callers == 1..NumCallers

\* The file createPath touches for path, as the host is asked for it.
TouchedFile(path) == Join(NewPath(createFolder(path)), splitPath(path)[2])

\* Every caller calls p.Create(pathname).
RaceBegin(p, pathname) ==
    /\ walk = Idle /\ procs = Idle
    /\ fs = InitFs
    /\ procs' = [pc |-> "race", path |-> PathJoin(p, pathname),
                 at |-> [c \in Callers |-> "mkdir"], written |-> FALSE]
    /\ last' = NoCall
    /\ UNCHANGED <<fs, walk>>

\* createPath of caller c: p.Mkdir().
RaceMkdir(c) ==
    /\ procs.pc = "race" /\ procs.at[c] = "mkdir"
    /\ LET folder == createFolder(procs.path)
           file == splitPath(procs.path)[2]
       IN  /\ fs' = IF folder # <<>> THEN Mkdir(fs, NewPath(folder), FALSE).fs ELSE fs
           /\ procs' = [procs EXCEPT !.at[c] = IF file # <<>> THEN "stat" ELSE "done"]
    /\ UNCHANGED <<last, walk>>

\* Touch of caller c: os.Stat.
RaceStat(c) ==
    /\ procs.pc = "race" /\ procs.at[c] = "stat"
    /\ LET todo == TouchStat(fs, NewPath(createFolder(procs.path)),
                             splitPath(procs.path)[2], FALSE)
       IN  procs' = [procs EXCEPT !.at[c] = IF todo = "create" THEN "create" ELSE "done"]
    /\ UNCHANGED <<fs, last, walk>>

\* Touch of caller c: os.Create, after Stat found nothing.
RaceCreate(c) ==
    /\ procs.pc = "race" /\ procs.at[c] = "create"
    /\ fs' = OsCreate(fs, TouchedFile(procs.path), FALSE).fs
    /\ procs' = [procs EXCEPT !.at[c] = "done"]
    /\ UNCHANGED <<last, walk>>

\* A writer writes to the file once a Create has returned.
RaceWrite ==
    /\ procs.pc = "race" /\ ~procs.written
    /\ \E c \in Callers : procs.at[c] = "done"
    /\ IsFile(fs, Resolve(TouchedFile(procs.path)))
    /\ fs' = [fs EXCEPT ![Resolve(TouchedFile(procs.path))] = FileEntry(<<"x">>)]
    /\ procs' = [procs EXCEPT !.written = TRUE]
    /\ UNCHANGED <<last, walk>>

NextRace ==
    \/ \E p \in Bases, pathname \in TreePathnames : RaceBegin(p, pathname)
    \/ \E c \in Callers : RaceMkdir(c)
    \/ \E c \in Callers : RaceStat(c)
    \/ \E c \in Callers : RaceCreate(c)
    \/ RaceWrite

SpecRace == Init /\ [][NextRace]_vars

-----------------------------------------------------------------------------
(* The claims.                                                                *)

\* A pathname that is its own normal form and names an entry: not empty, not
\* ".", no ".." in it.  Its final segment is Base of it.
PlainPathname(s) ==
    /\ s # <<>> /\ s # DotName /\ s # RootPath
    /\ Clean(s) = s
    /\ \A i \in 1..Len(Split(s)) : Split(s)[i] # DotDotName

CreateSucceeded == last.op = "create" /\ ~last.mkdirErr /\ ~last.touchErr

\* C1: for every base path p, the root and the current directory included,
\* and every pathname that does not end with a separator, p.Create(pathname)
\* returns the Path p.Join(pathname), its Name() is the final segment of
\* pathname, and once the call has returned without a filesystem failure both
\* that Path and its parent exist.  (Stated for the pathnames that are their
\* own normal form, where the final segment is not in question.)
C1_CreateReturnsJoinedPath ==
    (CreateSucceeded /\ PlainPathname(last.arg) /\ ~HasSuffix(last.arg, Separator))
        => /\ last.ret.kind = "path"
           /\ last.ret.path = PathJoin(last.path, last.arg)
           /\ Name(last.ret.path) = Base(last.arg)
           /\ Exists(fs, last.ret.path)
           /\ Exists(fs, Parent(last.ret.path))

\* C2: for every base path p and every pathname that ends with a separator,
\* p.Create(pathname) makes a directory at p.Join(pathname) and no regular
\* file: the entry at the returned Path is a directory and the call created
\* no file anywhere.
C2_CreateTrailingSeparatorMakesDirectory ==
    (CreateSucceeded /\ HasSuffix(last.arg, Separator)
                     /\ PlainPathname(TrimRight(last.arg, Separator)))
        => /\ last.ret.path = PathJoin(last.path, last.arg)
           /\ IsDir(fs, Resolve(last.ret.path))
           /\ Files(fs) = Files(last.pre)

\* C3: whenever the Mkdir or the Touch inside Create fails, Create reports
\* an explicit failure to its caller, never a plain Path.
C3_CreateSurfacesFailure ==
    (last.op = "create" /\ (last.mkdirErr \/ last.touchErr))
        => last.ret.kind = "failure"

\* C4: Delete's boolean is faithful and Delete is idempotent: it returns
\* false only when a removal was attempted and failed; when it returns true
\* the path does not exist afterwards and nothing is left under it; and a
\* second Delete of the path, now missing, returns true and changes nothing.
C4_DeleteFaithfulAndIdempotent ==
    last.op = "delete"
        => LET n == Resolve(last.path)
               failed == last.stuck # NoNode \/ EndsWithDot(last.path)
           IN  /\ ~last.ret => (Exists(last.pre, last.path) /\ last.attempted /\ failed)
               /\ last.ret => /\ ~Exists(fs, last.path)
                              /\ Subtree(fs, n) = {}
                              /\ \A stuck \in {NoNode} \cup DOMAIN fs :
                                    /\ Delete(fs, last.path, stuck).ret
                                    /\ Delete(fs, last.path, stuck).fs = fs
               /\ ~Exists(last.pre, last.path) => (last.ret /\ fs = last.pre)

\* C4's case: Delete returned true for a directory that held a file below it.
C4_Witness ==
    /\ last.op = "delete" /\ last.ret /\ last.attempted
    /\ IsDir(last.pre, Resolve(last.path))
    /\ \E m \in Files(last.pre) : IsPrefix(Resolve(last.path), m)

\* C5: Parents(0) is Parent(), also where the parent is the root or ".".
C5_ParentsZeroIsParent ==
    (last.op = "parents" /\ last.arg = 0)
        => /\ last.ret.kind = "path"
           /\ last.ret.path = Parent(last.path)

\* C6: Parents(depth) returns a Path for every Path and every depth, never a
\* runtime fault; where the first Parent() already is "." or the root, that
\* boundary Path is the result.
C6_ParentsIsTotal ==
    last.op = "parents"
        => /\ last.ret.kind # "panic"
           /\ Parent(last.path) \in {DotPath, RootPath}
                 => last.ret = [kind |-> "path", path |-> Parent(last.path)]

\* C9: Read returns nil exactly when the read fails (the path is missing or
\* a directory, or the host refuses); a file that exists reads as its whole
\* content, and an empty file as a zero-length value that is not nil.
C9_ReadNilIffFailure ==
    last.op = "read"
        => LET n == Resolve(last.path)
               fails == last.fault \/ ~IsFile(last.pre, n)
           IN  /\ (last.ret.kind = "nil") <=> fails
               /\ ~fails => last.ret = [kind |-> "bytes", data |-> last.pre[n].data]

\* C9's case: an empty file, made by Create and never written, was read.
C9_Witness ==
    /\ last.op = "read" /\ ~last.fault
    /\ IsFile(last.pre, Resolve(last.path))
    /\ last.pre[Resolve(last.path)].data = <<>>
    /\ last.ret.kind = "bytes" /\ Len(last.ret.data) = 0


\* The order filepath.Walk visits a tree in: a directory before what it
\* holds, the names of a directory in byte order.
RECURSIVE NodeLess(_, _)
NodeLess(m, n) ==
    IF m = <<>> THEN n # <<>>
    ELSE IF n = <<>> THEN FALSE
    ELSE IF m[1] = n[1] THEN NodeLess(Tail(m), Tail(n))
    ELSE NameLess(m[1], n[1])

RECURSIVE InWalkOrder(_)
InWalkOrder(nodes) ==
    IF nodes = {} THEN <<>>
    ELSE LET first == CHOOSE x \in nodes : \A y \in nodes \ {x} : NodeLess(x, y)
         IN  <<first>> \o InWalkOrder(nodes \ {first})

\* The path string Walk hands out for node n of the tree at root.
WalkPath(root, n) ==
    IF n = Resolve(root) THEN root
    ELSE Join(root, JoinNames(SubSeq(n, Len(Resolve(root)) + 1, Len(n))))

\* Where the walk of a pattern errs: at a directory that cannot be read, and
\* at a file when the pattern is malformed.
WalkErrsAt(f, pattern, n) ==
    \/ IsDir(f, n) /\ ~f[n].readable
    \/ IsFile(f, n) /\ Malformed(pattern)

WalkErrs(f, root, pattern) ==
    \/ Resolve(root) \notin DOMAIN f
    \/ \E n \in Subtree(f, Resolve(root)) : WalkErrsAt(f, pattern, n)

\* The files under root whose name matches, among those visited before the
\* first error of the walk, in walk order.
MatchesBeforeError(f, root, pattern) ==
    LET tree == Subtree(f, Resolve(root))
        hits == {n \in tree :
                    /\ IsFile(f, n)
                    /\ ~Malformed(pattern) /\ GlobMatch(pattern, Last(n))
                    /\ \A e \in tree : WalkErrsAt(f, pattern, e) => NodeLess(n, e)}
        order == InWalkOrder(hits)
    IN  [i \in 1..Len(order) |-> WalkPath(root, order[i])]

\* Every file under root whose name matches, in walk order.
AllMatches(f, root, pattern) ==
    LET hits == {n \in Subtree(f, Resolve(root)) :
                    IsFile(f, n) /\ GlobMatch(pattern, Last(n))}
        order == InWalkOrder(hits)
    IN  [i \in 1..Len(order) |-> WalkPath(root, order[i])]

Range(q) == {q[i] : i \in 1..Len(q)}

\* C7: with no walk error, Find returns a mapping whose keys are exactly the
\* patterns asked for, and the value of each lists, once each and in walk
\* order, exactly the entries under the path that are not directories and
\* whose base name matches; it is empty when nothing matches.
C7_FindListsMatchingFiles ==
    (last.op = "find"
        /\ \A pattern \in Range(last.arg) : ~WalkErrs(last.pre, last.path, pattern))
        => /\ DOMAIN last.ret = Range(last.arg)
           /\ last.logged = 0
           /\ \A pattern \in Range(last.arg) :
                 /\ last.ret[pattern] = AllMatches(last.pre, last.path, pattern)
                 /\ \A i \in 1..Len(last.ret[pattern]) :
                       ~IsDir(last.pre, Resolve(last.ret[pattern][i]))

\* C7's case: Find over a tree with a directory in it listed two files for
\* one pattern and nothing for another.
C7_Witness ==
    /\ last.op = "find" /\ last.logged = 0
    /\ \E n \in Subtree(last.pre, Resolve(last.path)) :
          n # Resolve(last.path) /\ IsDir(last.pre, n)
    /\ \E pattern \in DOMAIN last.ret : Len(last.ret[pattern]) >= 2
    /\ \E pattern \in DOMAIN last.ret : last.ret[pattern] = <<>>

C10_TouchKeepsExistingFile ==
    (procs.pc = "race" /\ procs.written)
        => /\ IsFile(fs, Resolve(TouchedFile(procs.path)))
           /\ fs[Resolve(TouchedFile(procs.path))].data = <<"x">>

====
